---------------------------- MODULE Spec2Model ----------------------------
(***************************************************************************)
(* The genetic router of the cultivation tracker (geneticRouter: getBySlug, *)
(* create, delete, update) over the relational store it queries.            *)
(*                                                                          *)
(* Every request is an async handler: each awaited store statement is one   *)
(* atomic step of the store, and the handler's synchronous code between two *)
(* awaits runs with the step that resumes it.  Requests of different        *)
(* sessions interleave at the awaits.                                       *)
(*                                                                          *)
(* Strings are sequences of one-character strings, so that slugs are built  *)
(* by concatenation exactly as the template literals build them.            *)
(*                                                                          *)
(* The columns are the ones the router's queries name (genetics.slug,       *)
(* plants.code, batches.geneticId, terpeneProfile).                         *)
(***************************************************************************)
EXTENDS Integers, Sequences, FiniteSets

VARIABLES genetics, plants, batches, nextId, req

vars == <<genetics, plants, batches, nextId, req>>

store == <<genetics, plants, batches, nextId>>

(***************************** bounds **************************************)
\* Sessions calling the router (requests in flight at once).
MaxSessions == 1
\* Genetic rows ever inserted (the identity column stops here).
MaxId == 3
\* Plant rows and Batch rows ever inserted.
MaxPlants == 1
MaxBatches == 1
\* Sessions of the specification of concurrent requests.
MaxConcurrent == 2

Sessions == 1..MaxSessions

(***************************** strings *************************************)
OGKush == <<"O", "G", " ", "K", "u", "s", "h">>
ogkush == <<"o", "g", " ", "k", "u", "s", "h">>
Empty == <<>>

\* Names a caller may send; Empty is the one the input schema rejects.
Names == {OGKush, ogkush, Empty}

\* Values Date.now() may return (milliseconds; only the decimal digits are read).
Times == {170000042}

DigitChar == <<"0", "1", "2", "3", "4", "5", "6", "7", "8", "9">>

\* Number.prototype.toString() of a non-negative integer.
RECURSIVE toString(_)
toString(n) ==
  IF n < 10 THEN <<DigitChar[n + 1]>>
  ELSE toString(n \div 10) \o <<DigitChar[(n % 10) + 1]>>

\* The number of trailing characters the suffix keeps: slice(-4).
SliceLen == 4

\* String.prototype.slice(-k): the last k characters (all of them when shorter).
SliceLast(str, k) ==
  IF Len(str) <= k THEN str ELSE SubSeq(str, Len(str) - k + 1, Len(str))

UpperToLower ==
  [c \in {"O", "G", "K", "B", "D"} |->
     CASE c = "O" -> "o" [] c = "G" -> "g" [] c = "K" -> "k"
       [] c = "B" -> "b" [] c = "D" -> "d"]

SlugChar(c) ==
  IF c = " " THEN "-"
  ELSE IF c \in DOMAIN UpperToLower THEN UpperToLower[c] ELSE c

\* slugify of ~/lib/utils: lower-cased, blanks turned into hyphens.
slugify(name) == [i \in 1..Len(name) |-> SlugChar(name[i])]

\* Mutant of TimeSuffix: slice(4) in place of slice(-4).
TimeSuffixSliceFrom(t) == SubSeq(toString(t), SliceLen + 1, Len(toString(t)))

\* Date.now().toString().slice(-4)
TimeSuffix(t) == SliceLast(toString(t), SliceLen)

\* `${slug}-${Date.now().toString().slice(-4)}`
Suffixed(slug, t) == slug \o <<"-">> \o TimeSuffix(t)

\* existing ? `${slug}-${...}` : slug
FinalSlug(slug, existing, t) == IF existing THEN Suffixed(slug, t) ELSE slug

(************************ values and input *********************************)
\* A key of an input object: missing (undefined), null, or a value.
Absent == [tag |-> "absent"]
Null == [tag |-> "null"]
Val(x) == [tag |-> "val", v |-> x]

\* The optional columns of geneticInput that update copies as they are ...
CopyFields ==
  {"type", "description", "breeder", "floweringTime",
   "growthCharacteristics", "terpeneProfile", "lineage"}
\* ... and the decimal ones, which it converts to text.
DecimalFields == {"thcPotential", "cbdPotential"}
Fields == CopyFields \cup DecimalFields

GeneticTypes == {"sativa", "indica", "hybrid"}

\* The bounds of thcPotential and cbdPotential.
MinPotential == 0
MaxPotential == 100

\* An input object with the given keys and every other key missing.
Obj(keys) == [f \in Fields |-> IF f \in DOMAIN keys THEN keys[f] ELSE Absent]

\* The objects callers send to create: one the schema accepts, two it rejects.
CreatePayloads ==
  { Obj([type |-> Val("hybrid"), breeder |-> Val("Breeder"),
         description |-> Val("D0"), thcPotential |-> Val(12), lineage |-> Null]),
    Obj([type |-> Val("ruderalis")]),
    Obj([type |-> Val("sativa"), cbdPotential |-> Val(101)]) }

\* The data callers send to update: empty, one with keys missing, null and set,
\* and one the schema rejects.
UpdatePayloads ==
  { Obj(<<>>),
    Obj([type |-> Val("sativa"), breeder |-> Null, thcPotential |-> Null,
         floweringTime |-> Val(63), cbdPotential |-> Val(1),
         terpeneProfile |-> Val("T1")]),
    Obj([thcPotential |-> Val(101)]) }

\* .nullish(): the key may be missing or null.
Nullish(x) == x.tag \in {"absent", "null"}

\* Mutant of PotentialOk: the .max(100) is left out.
PotentialOkNoMax(n) == MinPotential <= n

\* z.number().min(0).max(100)
PotentialOk(n) == MinPotential <= n /\ n <= MaxPotential
\* z.enum(['sativa', 'indica', 'hybrid'])
TypeOk(t) == t \in GeneticTypes

\* The keys of geneticInput other than name and type: the potentials are
\* bounded, the others take any value of their type.
OptionalOk(data) ==
  /\ Nullish(data["thcPotential"]) \/ PotentialOk(data["thcPotential"].v)
  /\ Nullish(data["cbdPotential"]) \/ PotentialOk(data["cbdPotential"].v)

\* geneticInput: name: z.string().min(1), type: z.enum([...]), the rest nullish.
geneticInput(name, data) ==
  /\ name.tag = "val" /\ Len(name.v) >= 1
  /\ data["type"].tag = "val" /\ TypeOk(data["type"].v)
  /\ OptionalOk(data)

\* geneticInput.partial(): every key may be missing; a present one is checked as before.
geneticInputPartial(name, data) ==
  /\ name.tag = "absent" \/ (name.tag = "val" /\ Len(name.v) >= 1)
  /\ data["type"].tag = "absent" \/ (data["type"].tag = "val" /\ TypeOk(data["type"].v))
  /\ OptionalOk(data)

(***************************** the store ***********************************)
\* A decimal column keeps the number's exact text.
DecimalText(x) == IF x.tag = "val" THEN Val(toString(x.v)) ELSE Null

\* The columns an insert writes: a missing key is left to the column's default, NULL.
InsertCols(data) ==
  [f \in Fields |->
     IF f \in DecimalFields THEN DecimalText(data[f])
     ELSE IF data[f].tag = "val" THEN data[f] ELSE Null]

\* One row of the genetic table.
GeneticRow(id, name, slug, cols, user, at) ==
  [id |-> id, name |-> name, slug |-> slug, cols |-> cols,
   createdById |-> user, updatedAt |-> at]

\* One row of the plant table; healthStatus defaults to 'healthy'.
PlantRow(id, g) ==
  [id |-> id, geneticId |-> g, code |-> <<"P">> \o toString(id),
   stage |-> "seedling", healthStatus |-> "healthy", plantDate |-> Null]

\* One row of the batches table; status defaults to 'active'.
BatchRow(id, g) ==
  [id |-> id, geneticId |-> g, name |-> <<"B">> \o toString(id),
   status |-> "active", plantCount |-> 0, createdAt |-> Null]

Ids(rows) == {r.id : r \in rows}

\* Mutant of BySlug: the lookup slugifies the name instead of reading the slug column.
BySlugOfName(slug) == {g \in genetics : slugify(g.name) = slug}

\* where eq(genetics.slug, slug)
BySlug(slug) == {g \in genetics : g.slug = slug}
\* Mutant of BySlugNotId: the ne(genetics.id, id) condition is left out.
BySlugAnyId(slug, id) == {g \in genetics : g.slug = slug}

\* where and(eq(genetics.slug, slug), ne(genetics.id, id))
BySlugNotId(slug, id) == {g \in genetics : g.slug = slug /\ g.id # id}
\* where eq(plants.geneticId, id)
PlantsOf(id) == {p \in plants : p.geneticId = id}
\* where eq(batches.geneticId, id)
BatchesOf(id) == {b \in batches : b.geneticId = id}

\* Mutant of CountRows: the count is read from a key the result row lacks, so ?? 0 answers.
CountRowsMissing(rows) == 0

\* select count(*)::int ... ; plantsResult[0]?.count ?? 0
CountRows(rows) == Cardinality(rows)

(***************************** failures ************************************)
\* What a failing store statement throws: not a TRPCError.
StoreError ==
  [trpc |-> FALSE, code |-> "STORE_ERROR", message |-> "store failure", cause |-> <<>>]

TRPCError(code, message, cause) ==
  [trpc |-> TRUE, code |-> code, message |-> message, cause |-> cause]

NotFound == TRPCError("NOT_FOUND", "Genetic not found", <<>>)
InUseByPlants ==
  TRPCError("PRECONDITION_FAILED", "Cannot delete genetic that is in use by plants", <<>>)
\* Mutant of InUseByBatches: the plants failure pasted for batches.
InUseByBatchesPasted ==
  TRPCError("PRECONDITION_FAILED", "Cannot delete genetic that is in use by plants", <<>>)
InUseByBatches ==
  TRPCError("PRECONDITION_FAILED", "Cannot delete genetic that is in use by batches", <<>>)
\* The input parser's rejection, raised before the handler runs.
BadRequest == TRPCError("BAD_REQUEST", "Invalid input", <<>>)

Internal(message, error) == TRPCError("INTERNAL_SERVER_ERROR", message, <<error>>)

\* catch (error) of create
CreateCatch(error) == Internal("Failed to create genetic", error)
\* catch (error) of update
UpdateCatch(error) == Internal("Failed to update genetic", error)
\* Mutant of DeleteCatch: every error is wrapped, as create and update do.
DeleteCatchWrapsAll(error) == Internal("Failed to delete genetic", error)

\* catch (error) of delete: if (error instanceof TRPCError) throw error
DeleteCatch(error) ==
  IF error.trpc THEN error ELSE Internal("Failed to delete genetic", error)

(***************************** requests ************************************)
\* The user of a session (ctx.session.user.id).
UserOf(s) == <<"u">> \o toString(s)

Unset == -1

\* A session with no request: nothing called yet.
NoRequest ==
  [op |-> "none", pc |-> "idle", id |-> 0, name |-> Absent, data |-> Obj(<<>>),
   slug |-> <<>>, existing |-> FALSE, at |-> 0,
   plantsCount |-> Unset, batchesCount |-> Unset,
   thrown |-> <<>>, error |-> <<>>, value |-> <<>>]

\* A request is over when its promise has settled.
Settled(r) == r.pc \in {"ok", "failed"}
Free(s) == req[s].pc = "idle" \/ Settled(req[s])

\* The handler has returned: its input object is gone, the outcome remains.
Returned(r) == [r EXCEPT !.name = Absent, !.data = Obj(<<>>), !.at = 0]
\* The promise resolves with value v (<<>> for undefined).
Resolve(r, v) == [Returned(r) EXCEPT !.pc = "ok", !.value = v]
\* The promise rejects: thrown is what was raised, error what the caller gets.
Reject(r, raised, received) ==
  [Returned(r) EXCEPT !.pc = "failed", !.thrown = <<raised>>, !.error = <<received>>]

\* The sessions whose request of procedure op has not settled.
InFlight(op) == {s \in DOMAIN req : req[s].op = op /\ ~Settled(req[s])}

Init ==
  /\ genetics = {}
  /\ plants = {}
  /\ batches = {}
  /\ nextId = 1
  /\ req = [s \in Sessions |-> NoRequest]

(***************************** create **************************************)
\* .input(geneticInput): a rejected input never reaches the handler.
CallCreate(s, name, data) ==
  /\ Free(s)
  /\ nextId + Cardinality(InFlight("create") \ {s}) <= MaxId
  /\ req' = [req EXCEPT ![s] =
       IF geneticInput(name, data)
       THEN [NoRequest EXCEPT !.op = "create", !.pc = "findFirst",
                              !.name = name, !.data = data,
                              !.slug = slugify(name.v)]
       ELSE Reject([NoRequest EXCEPT !.op = "create"], BadRequest, BadRequest)]
  /\ UNCHANGED store

\* await findFirst({where: eq(genetics.slug, slug)}), then finalSlug.
CreateFindFirst(s, t, fails) ==
  /\ req[s].op = "create" /\ req[s].pc = "findFirst"
  /\ req' = [req EXCEPT ![s] =
       IF fails THEN Reject(@, StoreError, CreateCatch(StoreError))
       ELSE LET existing == BySlug(req[s].slug) # {}
            IN [@ EXCEPT !.pc = "insert",
                         !.existing = existing,
                         !.slug = FinalSlug(req[s].slug, existing, t)]]
  /\ UNCHANGED store

\* Mutant of CreateInsert: the insert is refused when a row holds the slug, as
\* under a unique index on the slug column.
CreateInsertUnique(s, t, fails) ==
  /\ req[s].op = "create" /\ req[s].pc = "insert"
  /\ IF fails \/ BySlug(req[s].slug) # {}
     THEN /\ req' = [req EXCEPT ![s] = Reject(@, StoreError, CreateCatch(StoreError))]
          /\ UNCHANGED store
     ELSE /\ genetics' = genetics \cup
               {GeneticRow(nextId, req[s].name.v, req[s].slug,
                           InsertCols(req[s].data), UserOf(s), t)}
          /\ nextId' = nextId + 1
          /\ req' = [req EXCEPT ![s] = Resolve(@, <<>>)]
          /\ UNCHANGED <<plants, batches>>

\* await ctx.db.insert(genetics).values(insertData); updatedAt's $onUpdate stamps the row.
CreateInsert(s, t, fails) ==
  /\ req[s].op = "create" /\ req[s].pc = "insert"
  /\ IF fails
     THEN /\ req' = [req EXCEPT ![s] = Reject(@, StoreError, CreateCatch(StoreError))]
          /\ UNCHANGED store
     ELSE /\ genetics' = genetics \cup
               {GeneticRow(nextId, req[s].name.v, req[s].slug,
                           InsertCols(req[s].data), UserOf(s), t)}
          /\ nextId' = nextId + 1
          /\ req' = [req EXCEPT ![s] = Resolve(@, <<>>)]
          /\ UNCHANGED <<plants, batches>>

(***************************** getBySlug ***********************************)
\* A left join keeps the genetic's row when nothing matches, the other side NULL.
LeftSide(rows) == IF rows = {} THEN {<<>>} ELSE {<<r>> : r \in rows}

\* from genetics left join plants ... left join batches ..., for one genetic.
JoinRows(g) == LeftSide(PlantsOf(g.id)) \X LeftSide(BatchesOf(g.id))

\* jsonb_build_object('id', 'code', 'stage', 'healthStatus', 'plantDate')
PlantSummary(p) ==
  [id |-> p.id, code |-> p.code, stage |-> p.stage,
   healthStatus |-> p.healthStatus, plantDate |-> p.plantDate]

\* jsonb_build_object('id', 'name', 'status', 'plantCount', 'createdAt')
BatchSummary(b) ==
  [id |-> b.id, name |-> b.name, status |-> b.status,
   plantCount |-> b.plantCount, createdAt |-> b.createdAt]

\* count(distinct x.id) over the joined rows: NULLs are not counted.
CountDistinct(joined, side) ==
  Cardinality({j[side][1].id : j \in {k \in joined : k[side] # <<>>}})

\* filter (where x.id is not null): the joined rows whose side is not NULL.
Kept(joined, side) == {j \in joined : j[side] # <<>>}

\* The jsonb objects of the kept rows, one for each joined row.
PlantObjects(joined) == [j \in Kept(joined, 1) |-> PlantSummary(j[1][1])]
BatchObjects(joined) == [j \in Kept(joined, 2) |-> BatchSummary(j[2][1])]

\* json_agg(distinct obj): an array (each element with its number of
\* occurrences), and NULL when no row passes the filter.
JsonAggDistinct(objects) ==
  IF DOMAIN objects = {} THEN Null
  ELSE Val([o \in {objects[j] : j \in DOMAIN objects} |-> 1])

\* Mutant of OrEmpty: the aggregate is returned as the store gave it.
OrEmptyForgotten(x) == x

\* genetic.plants || []
OrEmpty(x) == IF x.tag = "null" THEN Val(<<>>) ELSE x

\* The columns getBySlug selects from the genetic's row.
SelectedCols ==
  {"type", "breeder", "description", "floweringTime",
   "thcPotential", "cbdPotential", "growthCharacteristics"}

\* The object getBySlug returns for the grouped row of genetic g.
Detail(g) ==
  LET joined == JoinRows(g)
  IN [id |-> g.id, name |-> g.name,
      cols |-> [f \in SelectedCols |-> g.cols[f]],
      updatedAt |-> g.updatedAt,
      countPlants |-> CountDistinct(joined, 1),
      countBatches |-> CountDistinct(joined, 2),
      plants |-> OrEmpty(JsonAggDistinct(PlantObjects(joined))),
      batches |-> OrEmpty(JsonAggDistinct(BatchObjects(joined)))]

\* .input(z.string()): any string is accepted.
CallGetBySlug(s, slug) ==
  /\ Free(s)
  /\ req' = [req EXCEPT ![s] =
       [NoRequest EXCEPT !.op = "getBySlug", !.pc = "select", !.slug = slug]]
  /\ UNCHANGED store

\* The select ... where eq(genetics.slug, input) ... limit(1), then rows[0];
\* no try/catch: a store failure rejects with the store's own error.
GetBySlugSelect(s, fails) ==
  /\ req[s].op = "getBySlug" /\ req[s].pc = "select"
  /\ \/ /\ fails
        /\ req' = [req EXCEPT ![s] = Reject(@, StoreError, StoreError)]
     \/ /\ ~fails /\ BySlug(req[s].slug) = {}
        /\ req' = [req EXCEPT ![s] = Reject(@, NotFound, NotFound)]
     \/ /\ ~fails
        /\ \E g \in BySlug(req[s].slug) :
             req' = [req EXCEPT ![s] = Resolve(@, <<Detail(g)>>)]
  /\ UNCHANGED store

(******************************* list ***************************************)
\* The code points of the characters names are written with.
CharCode ==
  [c \in {" ", "G", "K", "O", "g", "h", "k", "o", "s", "u"} |->
     CASE c = " " -> 32 [] c = "G" -> 71 [] c = "K" -> 75 [] c = "O" -> 79
       [] c = "g" -> 103 [] c = "h" -> 104 [] c = "k" -> 107 [] c = "o" -> 111
       [] c = "s" -> 115 [] c = "u" -> 117]

\* a < b in the order of the name column (the store's collation; here the
\* code points, a prefix before its extensions).
RECURSIVE NameBefore(_, _)
NameBefore(a, b) ==
  IF b = <<>> THEN FALSE
  ELSE IF a = <<>> THEN TRUE
  ELSE IF a[1] = b[1] THEN NameBefore(Tail(a), Tail(b))
  ELSE CharCode[a[1]] < CharCode[b[1]]

\* The arrangements of a set of rows, each row once.
Arrangements(rows) ==
  {q \in [1..Cardinality(rows) -> rows] :
     \A i, j \in DOMAIN q : i # j => q[i] # q[j]}

\* Mutant of OrderByName: the rows come in the order of their ids.
OrderById(rows) ==
  {q \in Arrangements(rows) : \A i, j \in DOMAIN q : i < j => q[i].id < q[j].id}

\* orderBy: (genetics) => [genetics.name]: ascending; rows of one name come in
\* whatever order the store picks.
OrderByName(rows) ==
  {q \in Arrangements(rows) :
     \A i, j \in DOMAIN q : i < j => ~NameBefore(q[j].name, q[i].name)}

\* with: { createdBy: true }: the row with its creator's user row attached.
WithCreatedBy(g) ==
  [id |-> g.id, name |-> g.name, slug |-> g.slug, cols |-> g.cols,
   createdById |-> g.createdById, updatedAt |-> g.updatedAt,
   createdBy |-> [id |-> g.createdById]]

\* protectedProcedure.query with no input.
CallList(s) ==
  /\ Free(s)
  /\ req' = [req EXCEPT ![s] = [NoRequest EXCEPT !.op = "list", !.pc = "findMany"]]
  /\ UNCHANGED store

\* return ctx.db.query.genetics.findMany(...): the handler returns the query's
\* promise; no try/catch, so a store failure rejects with the store's own error.
ListFindMany(s, fails) ==
  /\ req[s].op = "list" /\ req[s].pc = "findMany"
  /\ \/ /\ fails
        /\ req' = [req EXCEPT ![s] = Reject(@, StoreError, StoreError)]
     \/ /\ ~fails
        /\ \E q \in OrderByName(genetics) :
             req' = [req EXCEPT ![s] =
               Resolve(@, [i \in DOMAIN q |-> WithCreatedBy(q[i])])]
  /\ UNCHANGED store

(***************************** delete **************************************)
\* .input(z.object({ id: z.number() }))
CallDelete(s, id) ==
  /\ Free(s)
  /\ req' = [req EXCEPT ![s] =
       [NoRequest EXCEPT !.op = "delete", !.pc = "countPlants", !.id = id]]
  /\ UNCHANGED store

\* Mutant of PlantsCheck: the comparison is off by one.
PlantsCheckOffByOne(r, plantsCount) ==
  IF plantsCount > 1
  THEN Reject(r, InUseByPlants, DeleteCatch(InUseByPlants))
  ELSE [r EXCEPT !.pc = "countBatches"]

\* if (plantsCount > 0) throw PRECONDITION_FAILED; else on to the batches count.
PlantsCheck(r, plantsCount) ==
  IF plantsCount > 0
  THEN Reject(r, InUseByPlants, DeleteCatch(InUseByPlants))
  ELSE [r EXCEPT !.pc = "countBatches"]

\* if (batchesCount > 0) throw PRECONDITION_FAILED; else on to the delete.
BatchesCheck(r, batchesCount) ==
  IF batchesCount > 0
  THEN Reject(r, InUseByBatches, DeleteCatch(InUseByBatches))
  ELSE [r EXCEPT !.pc = "delete"]

\* await the plants count, then its check.
DeleteCountPlants(s, fails) ==
  /\ req[s].op = "delete" /\ req[s].pc = "countPlants"
  /\ req' = [req EXCEPT ![s] =
       IF fails THEN Reject(@, StoreError, DeleteCatch(StoreError))
       ELSE LET plantsCount == CountRows(PlantsOf(req[s].id))
            IN PlantsCheck([@ EXCEPT !.plantsCount = plantsCount], plantsCount)]
  /\ UNCHANGED store

\* await the batches count, then its check.
DeleteCountBatches(s, fails) ==
  /\ req[s].op = "delete" /\ req[s].pc = "countBatches"
  /\ req' = [req EXCEPT ![s] =
       IF fails THEN Reject(@, StoreError, DeleteCatch(StoreError))
       ELSE LET batchesCount == CountRows(BatchesOf(req[s].id))
            IN BatchesCheck([@ EXCEPT !.batchesCount = batchesCount], batchesCount)]
  /\ UNCHANGED store

\* plant.genetic_id references genetic.id: the store refuses to remove a
\* genetic that a plant still points to.
PlantKeyHolds(id) == PlantsOf(id) = {}

\* await ctx.db.delete(genetics).where(eq(genetics.id, input.id))
DeleteStatement(s, fails) ==
  /\ req[s].op = "delete" /\ req[s].pc = "delete"
  /\ IF fails \/ ~PlantKeyHolds(req[s].id)
     THEN /\ req' = [req EXCEPT ![s] = Reject(@, StoreError, DeleteCatch(StoreError))]
          /\ UNCHANGED store
     ELSE /\ genetics' = {g \in genetics : g.id # req[s].id}
          /\ req' = [req EXCEPT ![s] = Resolve(@, <<>>)]
          /\ UNCHANGED <<plants, batches, nextId>>

(***************************** update **************************************)
\* if (data.name): a missing name (and the empty string) skips the slug block.
HasName(name) == name.tag = "val" /\ Len(name.v) > 0

\* The value update stores for a provided key.
SetValue(f, x) == IF f \in DecimalFields THEN DecimalText(x) ELSE x

\* Mutant of ProvidedFields: != null in place of !== undefined.
ProvidedFieldsNotNull(data) == {f \in Fields : data[f].tag = "val"}

\* if (data.f !== undefined) updateData.f = ...: the keys update writes.
ProvidedFields(data) == {f \in Fields : data[f].tag # "absent"}

\* updateData: the row with the provided keys written, name and slug when a
\* name was given, and updatedAt always.
ApplyUpdate(g, name, slug, data, at) ==
  [id |-> g.id,
   name |-> IF HasName(name) THEN name.v ELSE g.name,
   slug |-> IF HasName(name) THEN slug ELSE g.slug,
   cols |-> [f \in Fields |->
               IF f \in ProvidedFields(data) THEN SetValue(f, data[f])
               ELSE g.cols[f]],
   createdById |-> g.createdById,
   updatedAt |-> at]

\* .input(z.object({ id, data: geneticInput.partial() })); without a name the
\* handler runs up to the update statement at once (updatedAt = new Date()).
CallUpdate(s, id, name, data, at) ==
  /\ Free(s)
  /\ req' = [req EXCEPT ![s] =
       LET r == [NoRequest EXCEPT !.op = "update", !.id = id,
                                  !.name = name, !.data = data]
       IN IF ~geneticInputPartial(name, data)
          THEN Reject([NoRequest EXCEPT !.op = "update"], BadRequest, BadRequest)
          ELSE IF HasName(name)
               THEN [r EXCEPT !.pc = "findFirst", !.slug = slugify(name.v)]
               ELSE [r EXCEPT !.pc = "update", !.at = at]]
  /\ UNCHANGED store

\* await findFirst({where: and(eq(slug), ne(id))}), then the slug (Date.now() at t)
\* and the rest of updateData (new Date() at u, not before t).
UpdateFindFirst(s, t, u, fails) ==
  /\ req[s].op = "update" /\ req[s].pc = "findFirst"
  /\ u >= t
  /\ req' = [req EXCEPT ![s] =
       IF fails THEN Reject(@, StoreError, UpdateCatch(StoreError))
       ELSE LET existing == BySlugNotId(req[s].slug, req[s].id) # {}
            IN [@ EXCEPT !.pc = "update",
                         !.existing = existing,
                         !.slug = FinalSlug(req[s].slug, existing, t),
                         !.at = u]]
  /\ UNCHANGED store

\* Mutant of UpdateStatement: an update that matches no row throws NOT_FOUND,
\* which the catch wraps.
UpdateStatementNotFound(s, fails) ==
  /\ req[s].op = "update" /\ req[s].pc = "update"
  /\ IF fails
     THEN /\ req' = [req EXCEPT ![s] = Reject(@, StoreError, UpdateCatch(StoreError))]
          /\ UNCHANGED store
     ELSE LET r == req[s]
              hit == {g \in genetics : g.id = r.id}
              new == {ApplyUpdate(g, r.name, r.slug, r.data, r.at) : g \in hit}
          IN /\ genetics' = (genetics \ hit) \cup new
             /\ req' = [req EXCEPT ![s] =
                  IF new = {} THEN Reject(@, NotFound, UpdateCatch(NotFound))
                  ELSE Resolve(@, <<CHOOSE g \in new : TRUE>>)]
             /\ UNCHANGED <<plants, batches, nextId>>

\* await update(genetics).set(updateData).where(eq(genetics.id, id)).returning()
UpdateStatement(s, fails) ==
  /\ req[s].op = "update" /\ req[s].pc = "update"
  /\ IF fails
     THEN /\ req' = [req EXCEPT ![s] = Reject(@, StoreError, UpdateCatch(StoreError))]
          /\ UNCHANGED store
     ELSE LET r == req[s]
              hit == {g \in genetics : g.id = r.id}
              new == {ApplyUpdate(g, r.name, r.slug, r.data, r.at) : g \in hit}
          IN /\ genetics' = (genetics \ hit) \cup new
             /\ req' = [req EXCEPT ![s] =
                  Resolve(@, IF new = {} THEN <<>> ELSE <<CHOOSE g \in new : TRUE>>)]
             /\ UNCHANGED <<plants, batches, nextId>>

(*********************** plants and batches ********************************)
\* A plant is recorded for genetic g; plant.genetic_id references genetic.id,
\* so the store accepts it only while g's row exists.
AddPlant(g) ==
  /\ Cardinality(plants) < MaxPlants
  /\ g \in Ids(genetics)
  /\ plants' = plants \cup {PlantRow(Cardinality(plants) + 1, g)}
  /\ UNCHANGED <<genetics, batches, nextId, req>>

\* A batch is recorded for genetic g, picked among the genetics that exist.
AddBatch(g) ==
  /\ Cardinality(batches) < MaxBatches
  /\ g \in Ids(genetics)
  /\ batches' = batches \cup {BatchRow(Cardinality(batches) + 1, g)}
  /\ UNCHANGED <<genetics, plants, nextId, req>>

(************************** specification **********************************)
NameInputs == {Absent} \cup {Val(n) : n \in Names}
SlugInputs == {slugify(n) : n \in Names \ {Empty}} \cup {Suffixed(slugify(OGKush), 170000042)}
IdInputs == 1..MaxId

Call(s) ==
  \/ \E n \in NameInputs, d \in CreatePayloads : CallCreate(s, n, d)
  \/ \E slug \in SlugInputs : CallGetBySlug(s, slug)
  \/ CallList(s)
  \/ \E id \in IdInputs : CallDelete(s, id)
  \/ \E id \in IdInputs, n \in NameInputs, d \in UpdatePayloads, at \in Times :
        CallUpdate(s, id, n, d, at)

Step(s) ==
  \E fails \in BOOLEAN :
    \/ \E t \in Times : CreateFindFirst(s, t, fails)
    \/ \E t \in Times : CreateInsert(s, t, fails)
    \/ GetBySlugSelect(s, fails)
    \/ ListFindMany(s, fails)
    \/ DeleteCountPlants(s, fails)
    \/ DeleteCountBatches(s, fails)
    \/ DeleteStatement(s, fails)
    \/ \E t, u \in Times : UpdateFindFirst(s, t, u, fails)
    \/ UpdateStatement(s, fails)

Environment == \E g \in IdInputs : AddPlant(g) \/ AddBatch(g)

Next == (\E s \in Sessions : Call(s) \/ Step(s)) \/ Environment

Spec == Init /\ [][Next]_vars

(******************** concurrent creates and updates ***********************)
\* Requests of several sessions at once, their store statements interleaved at
\* the awaits: creates and renames of the same name, the store answering.
ConcSessions == 1..MaxConcurrent

ConcNames == {Val(OGKush), Val(ogkush)}
ConcIds == 1..2

ConcInit ==
  /\ genetics = {}
  /\ plants = {}
  /\ batches = {}
  /\ nextId = 1
  /\ req = [s \in ConcSessions |-> NoRequest]

ConcCall(s) ==
  \/ \E n \in ConcNames : CallCreate(s, n, Obj([type |-> Val("hybrid")]))
  \/ \E id \in ConcIds, n \in ConcNames, at \in Times :
        CallUpdate(s, id, n, Obj(<<>>), at)

ConcStep(s) ==
  \/ \E t \in Times : CreateFindFirst(s, t, FALSE)
  \/ \E t \in Times : CreateInsert(s, t, FALSE)
  \/ \E t, u \in Times : UpdateFindFirst(s, t, u, FALSE)
  \/ UpdateStatement(s, FALSE)

ConcNext == \E s \in ConcSessions : ConcCall(s) \/ ConcStep(s)

ConcSpec == ConcInit /\ [][ConcNext]_vars

(***************************** properties **********************************)
\* Session s takes the step that leaves pc `at` of its request of procedure op.
Takes(s, op, at) == req[s].op = op /\ req[s].pc = at /\ req'[s] # req[s]

\* The step's store statement ran (the store did not fail it).
Ran(s) == req'[s].thrown # <<StoreError>>

\* C1: no two stored genetics have the same slug.
C1_SlugsUnique ==
  \A g1 \in genetics : \A g2 \in genetics : g1.slug = g2.slug => g1.id = g2.id

\* C2: when the plants count of a delete finds a plant that references the
\* genetic, the request fails with PRECONDITION_FAILED "in use by plants"; and no
\* step of a delete whose genetic a plant references changes the stored rows.
C2_PlantsBlockDelete ==
  [][\A s \in Sessions :
       /\ (Takes(s, "delete", "countPlants") /\ Ran(s)
             /\ \E p \in plants : p.geneticId = req[s].id)
          => /\ req'[s].pc = "failed"
             /\ req'[s].error[1].code = "PRECONDITION_FAILED"
             /\ req'[s].error[1].message
                  = "Cannot delete genetic that is in use by plants"
       /\ (req[s].op = "delete" /\ req'[s] # req[s]
             /\ \E p \in plants : p.geneticId = req[s].id)
          => /\ genetics' = genetics /\ plants' = plants /\ batches' = batches
             /\ req'[s].pc # "ok"]_vars

\* C2 witness: a delete has failed on the plants check, the genetic's row still stored.
C2_Witness ==
  \E s \in Sessions :
    /\ req[s].op = "delete" /\ req[s].pc = "failed"
    /\ req[s].plantsCount > 0
    /\ req[s].error[1].code = "PRECONDITION_FAILED"
    /\ \E g \in genetics : g.id = req[s].id

\* C3: when the batches count of a delete (reached with no plant counted) finds a
\* batch that references the genetic, the request fails with PRECONDITION_FAILED
\* "in use by batches", a message other than the plants one, and the row stays.
C3_BatchesBlockDelete ==
  [][\A s \in Sessions :
       (Takes(s, "delete", "countBatches") /\ Ran(s)
          /\ \E b \in batches : b.geneticId = req[s].id)
       => /\ req[s].plantsCount = 0
          /\ req'[s].pc = "failed"
          /\ req'[s].error[1].code = "PRECONDITION_FAILED"
          /\ req'[s].error[1].message
               = "Cannot delete genetic that is in use by batches"
          /\ req'[s].error[1].message # InUseByPlants.message
          /\ genetics' = genetics]_vars

\* C3 witness: a delete that counted no plant has failed on the batches check.
C3_Witness ==
  \E s \in Sessions :
    /\ req[s].op = "delete" /\ req[s].pc = "failed"
    /\ req[s].plantsCount = 0 /\ req[s].batchesCount > 0
    /\ req[s].error[1].code = "PRECONDITION_FAILED"
    /\ \E g \in genetics : g.id = req[s].id

\* C4: no plant and no batch references a genetic that is no longer stored.
C4_NoReferenceToRemoved ==
  /\ \A p \in plants : \E g \in genetics : g.id = p.geneticId
  /\ \A b \in batches : \E g \in genetics : g.id = b.geneticId

\* C5 as stated: every delete that the store did not fail ran both counts.
C5_BothChecksRun ==
  \A s \in Sessions :
    (req[s].op = "delete" /\ Settled(req[s]) /\ req[s].thrown # <<StoreError>>)
    => (req[s].plantsCount # Unset /\ req[s].batchesCount # Unset)

\* C5 amended: the plants count always runs; the batches count runs exactly when
\* the plants count found none; and the failure names the dependency that blocked.
C5_ChecksInOrder ==
  \A s \in Sessions :
    req[s].op = "delete" =>
      /\ req[s].batchesCount # Unset => req[s].plantsCount = 0
      /\ (Settled(req[s]) /\ req[s].thrown # <<StoreError>>)
           => /\ req[s].plantsCount # Unset
              /\ req[s].plantsCount = 0 => req[s].batchesCount # Unset
      /\ req[s].plantsCount > 0
           => /\ req[s].pc = "failed"
              /\ req[s].error[1].message
                   = "Cannot delete genetic that is in use by plants"
      /\ req[s].batchesCount > 0
           => /\ req[s].pc = "failed"
              /\ req[s].error[1].message
                   = "Cannot delete genetic that is in use by batches"

\* C5 witness: a delete blocked by a plant settled without counting the batches,
\* although a batch references the genetic too.
C5_Witness ==
  \E s \in Sessions :
    /\ req[s].op = "delete" /\ req[s].pc = "failed"
    /\ req[s].plantsCount > 0 /\ req[s].batchesCount = Unset
    /\ \E b \in batches : b.geneticId = req[s].id

\* C6: the select of getBySlug leaves the store as it is; when the store answers,
\* the request fails with NOT_FOUND exactly when no stored genetic has the slug,
\* and otherwise returns a genetic that has it.
C6_NotFoundExactly ==
  [][\A s \in Sessions :
       Takes(s, "getBySlug", "select") =>
         /\ genetics' = genetics /\ plants' = plants /\ batches' = batches
         /\ Ran(s) =>
              LET match == {g \in genetics : g.slug = req[s].slug}
              IN /\ (req'[s].pc = "failed" /\ req'[s].error[1].code = "NOT_FOUND")
                      <=> match = {}
                 /\ req'[s].pc = "ok" <=> match # {}
                 /\ req'[s].pc = "ok" =>
                      \E g \in match :
                        /\ req'[s].value[1].id = g.id
                        /\ req'[s].value[1].name = g.name
                        /\ \A f \in DOMAIN req'[s].value[1].cols :
                             req'[s].value[1].cols[f] = g.cols[f]]_vars

\* C6 witness: a lookup failed with NOT_FOUND although genetics are stored.
C6_Witness ==
  \E s \in Sessions :
    /\ req[s].op = "getBySlug" /\ req[s].pc = "failed"
    /\ req[s].error[1].code = "NOT_FOUND"
    /\ genetics # {}
    /\ \A g \in genetics : g.slug # req[s].slug

DigitValue(c) == CHOOSE d \in 0..9 : DigitChar[d + 1] = c
RECURSIVE ParseDecimal(_)
ParseDecimal(str) ==
  IF str = <<>> THEN 0
  ELSE 10 * ParseDecimal(SubSeq(str, 1, Len(str) - 1)) + DigitValue(str[Len(str)])

IsDigit(c) == \E d \in 1..10 : DigitChar[d] = c

\* C9: an update with a name looks for the candidate slug among the other rows:
\* if one has it, the row's slug becomes the candidate, a hyphen and four digits
\* (not the other row's slug); if none has it, the candidate itself; the update
\* statement writes that slug to the row and touches no other row.
C9_UpdateSlugExcludesSelf ==
  [][\A s \in Sessions :
       /\ (Takes(s, "update", "findFirst") /\ Ran(s)) =>
            LET cand == req[s].slug
                others == {g \in genetics : g.slug = cand /\ g.id # req[s].id}
                new == req'[s].slug
            IN IF others # {}
               THEN /\ Len(new) = Len(cand) + 5
                    /\ SubSeq(new, 1, Len(cand)) = cand
                    /\ new[Len(cand) + 1] = "-"
                    /\ \A i \in (Len(cand) + 2)..Len(new) : IsDigit(new[i])
                    /\ \A g \in others : g.slug # new
               ELSE new = cand
       /\ (Takes(s, "update", "update") /\ req'[s].pc = "ok") =>
            \A g \in genetics :
              /\ g.id # req[s].id => g \in genetics'
              /\ (g.id = req[s].id /\ req[s].name.tag = "val") =>
                   \E h \in genetics' :
                     h.id = g.id /\ h.slug = req[s].slug /\ h.name = req[s].name.v]_vars

\* C9 witness: an update whose candidate another row holds returned the row with
\* the suffixed slug, the other row keeping the candidate.
C9_Witness ==
  \E s \in Sessions :
    /\ req[s].op = "update" /\ req[s].pc = "ok" /\ req[s].existing
    /\ req[s].value # <<>>
    /\ \E g \in genetics :
         /\ g.id # req[s].value[1].id
         /\ g.slug \o <<"-", "0", "0", "4", "2">> = req[s].value[1].slug

\* C10: a failure raised as a typed one reaches the caller as it was raised; the
\* caller gets INTERNAL_SERVER_ERROR only for an error that was not typed, and
\* with that error as its cause.
C10_TypedFailuresPass ==
  \A s \in Sessions :
    req[s].pc = "failed" =>
      /\ req[s].thrown[1].trpc => req[s].error = req[s].thrown
      /\ req[s].error[1].code = "INTERNAL_SERVER_ERROR"
           => (~req[s].thrown[1].trpc /\ req[s].error[1].cause = req[s].thrown)

\* C10 witness: a delete raised PRECONDITION_FAILED and the caller got it.
C10_Witness ==
  \E s \in Sessions :
    /\ req[s].op = "delete" /\ req[s].pc = "failed"
    /\ req[s].thrown[1].code = "PRECONDITION_FAILED"
    /\ req[s].error[1].code = "PRECONDITION_FAILED"

Violates(name, data) ==
  \/ name = Val(<<>>)
  \/ data["type"].tag = "val" /\ data["type"].v \notin {"sativa", "indica", "hybrid"}
  \/ \E f \in {"thcPotential", "cbdPotential"} :
       data[f].tag = "val" /\ (data[f].v < 0 \/ data[f].v > 100)

\* C12: a call of create or update (a step from a free session to a request of
\* that procedure) either starts a request whose input breaks no field constraint,
\* or is over at once: failed with BAD_REQUEST, no store statement to come, the
\* store unchanged. So an input that breaks a constraint never reaches the store.
C12_InvalidInputNoStoreAccess ==
  [][\A s \in Sessions :
       (Free(s) /\ req'[s] # req[s] /\ req'[s].op \in {"create", "update"}) =>
         /\ req'[s].pc # "ok"
         /\ ~Settled(req'[s]) => ~Violates(req'[s].name, req'[s].data)
         /\ req'[s].pc = "failed" =>
              /\ req'[s].error[1].code = "BAD_REQUEST"
              /\ genetics' = genetics /\ plants' = plants
              /\ batches' = batches /\ nextId' = nextId]_vars

\* C12 witness: an update was rejected with BAD_REQUEST while genetics are stored.
C12_Witness ==
  \E s \in Sessions :
    /\ req[s].op = "update" /\ req[s].pc = "failed"
    /\ req[s].error[1].code = "BAD_REQUEST"
    /\ genetics # {}

\* C13: the pre-check of a create leaves the candidate (the slug of the name) as
\* the slug when no stored genetic holds it, and otherwise makes it the candidate,
\* a hyphen and the last four digits of the time; the insert adds one row with
\* that slug, the given name and an id no stored row has, every stored row as it was.
C13_CreateSlugFromName ==
  [][\A s \in Sessions :
       /\ (Takes(s, "create", "findFirst") /\ Ran(s)) =>
            LET cand == slugify(req[s].name.v)
                held == {g \in genetics : g.slug = cand}
                new == req'[s].slug
                tail == SubSeq(new, Len(cand) + 2, Len(new))
            IN IF held = {} THEN new = cand
               ELSE /\ SubSeq(new, 1, Len(cand)) = cand
                    /\ new[Len(cand) + 1] = "-"
                    /\ Len(tail) = 4
                    /\ \A i \in 1..Len(tail) : IsDigit(tail[i])
                    /\ \E t \in Times : ParseDecimal(tail) = t % 10000
       /\ (Takes(s, "create", "insert") /\ req'[s].pc = "ok") =>
            \E h \in genetics' :
              /\ genetics' = genetics \cup {h}
              /\ \A g \in genetics : g.id # h.id
              /\ h.slug = req[s].slug
              /\ h.name = req[s].name.v
              /\ h.createdById = UserOf(s)]_vars

\* C13 witness: a create whose candidate was held has added a row with the
\* suffixed slug, next to the row that holds the candidate.
C13_Witness ==
  \E s \in Sessions :
    /\ req[s].op = "create" /\ req[s].pc = "ok" /\ req[s].existing
    /\ \E g, h \in genetics :
         /\ g.slug = <<"o", "g", "-", "k", "u", "s", "h">>
         /\ h.slug = <<"o", "g", "-", "k", "u", "s", "h", "-", "0", "0", "4", "2">>
         /\ g.id < h.id

\* C14: the query of list leaves the store as it is, and when the store answers
\* it returns every stored genetic exactly once, its creator attached, no row
\* before one whose name comes earlier.
C14_ListAllByName ==
  [][\A s \in Sessions :
       Takes(s, "list", "findMany") =>
         /\ genetics' = genetics /\ plants' = plants
         /\ batches' = batches /\ nextId' = nextId
         /\ Ran(s) =>
              LET v == req'[s].value
              IN /\ req'[s].pc = "ok"
                 /\ Len(v) = Cardinality(genetics)
                 /\ \A g \in genetics :
                      \E i \in 1..Len(v) :
                        /\ v[i].id = g.id /\ v[i].name = g.name
                        /\ v[i].slug = g.slug /\ v[i].cols = g.cols
                        /\ v[i].createdBy.id = g.createdById
                        /\ \A j \in 1..Len(v) : v[j].id = g.id => j = i
                 /\ \A i, j \in 1..Len(v) :
                      i < j => ~NameBefore(v[j].name, v[i].name)]_vars

\* C14 witness: list returned "OG Kush" before "og kush" although the row named
\* "og kush" was created first.
C14_Witness ==
  \E s \in Sessions :
    /\ req[s].op = "list" /\ req[s].pc = "ok" /\ Len(req[s].value) >= 2
    /\ req[s].value[1].name = <<"O", "G", " ", "K", "u", "s", "h">>
    /\ req[s].value[2].name = <<"o", "g", " ", "k", "u", "s", "h">>
    /\ req[s].value[1].id > req[s].value[2].id

\* C15: the pre-check and the write are separate store statements. The
\* pre-check changes no row and holds back no other session; the write stores the
\* slug the pre-check computed, whether or not a row holds that slug by then.
C15_WriteDoesNotRecheck ==
  [][\A s \in ConcSessions :
       /\ (Takes(s, "create", "findFirst") \/ Takes(s, "update", "findFirst")) =>
            /\ genetics' = genetics /\ nextId' = nextId
            /\ \A o \in ConcSessions \ {s} : req'[o] = req[o]
       /\ Takes(s, "create", "insert") =>
            /\ req'[s].pc = "ok"
            /\ \E h \in genetics' \ genetics :
                 /\ genetics' = genetics \cup {h}
                 /\ h.slug = req[s].slug
       /\ (Takes(s, "update", "update") /\ \E g \in genetics : g.id = req[s].id) =>
            /\ req'[s].pc = "ok"
            /\ \E h \in genetics' : h.id = req[s].id /\ h.slug = req[s].slug]_vars

\* C15 witness: two creates of one name, each pre-check finding nothing, have
\* each inserted a row: two stored genetics hold the slug "og-kush".
C15_Witness ==
  \E s1, s2 \in ConcSessions :
    /\ s1 # s2
    /\ req[s1].op = "create" /\ req[s1].pc = "ok" /\ ~req[s1].existing
    /\ req[s2].op = "create" /\ req[s2].pc = "ok" /\ ~req[s2].existing
    /\ \E g, h \in genetics :
         /\ g.id # h.id
         /\ g.slug = <<"o", "g", "-", "k", "u", "s", "h">>
         /\ h.slug = <<"o", "g", "-", "k", "u", "s", "h">>

\* C16: when the store answers, no step of an update fails. The update statement
\* with an id no stored genetic has returns no row and leaves the store as it is;
\* with an id a stored genetic has it returns that row, its id and createdById as
\* they were, and leaves every other row, the plants and the batches as they are.
C16_UpdateFrame ==
  [][\A s \in Sessions :
       /\ (Takes(s, "update", "findFirst") /\ Ran(s)) =>
            /\ req'[s].pc = "update"
            /\ genetics' = genetics /\ plants' = plants
            /\ batches' = batches /\ nextId' = nextId
       /\ (Takes(s, "update", "update") /\ Ran(s)) =>
            LET hit == {g \in genetics : g.id = req[s].id}
            IN /\ req'[s].pc = "ok"
               /\ plants' = plants /\ batches' = batches /\ nextId' = nextId
               /\ \A g \in genetics \ hit : g \in genetics'
               /\ Cardinality(genetics') = Cardinality(genetics)
               /\ hit = {} => (req'[s].value = <<>> /\ genetics' = genetics)
               /\ \A g \in hit :
                    \E h \in genetics' :
                      /\ req'[s].value = <<h>>
                      /\ h.id = g.id /\ h.createdById = g.createdById
                      /\ genetics' = (genetics \ {g}) \cup {h}]_vars

\* C16 witness: an update of an id that no stored genetic has returned no row,
\* while genetics are stored.
C16_Witness ==
  \E s \in Sessions :
    /\ req[s].op = "update" /\ req[s].pc = "ok" /\ req[s].value = <<>>
    /\ genetics # {}
    /\ \A g \in genetics : g.id # req[s].id

=============================================================================
